---- MODULE Spec2Model ----
(***************************************************************************)
(* The playback controller (AnimationViewportWidget), the multi-scene      *)
(* aggregator (FBXViewportWidget) and the scene handler (FbxHandler) of    *)
(* the mocap browser, as one state machine.  Every slot / hotkey handler   *)
(* of the widgets is one action; all of them run on the single Qt thread,  *)
(* so each handler is atomic.                                              *)
(***************************************************************************)
EXTENDS Integers, Sequences, FiniteSets, TLC

\* ------------------------------------------------------------------ bounds
\* longest path list handed to load_fbx_files
MaxPaths == 2
\* most entries the hidden_nodes lists are driven to hold, all handlers
\* together (the lists themselves are unbounded)
MaxHidden == 2
\* number of fast timers toggle_play is driven to start (never stopped)
MaxTimers == 2

\* ------------------------------------------------------------ environment
\* The files on disk.  a.fbx and b.fbx are animated scenes, static.fbx is an
\* existing file in which the SDK finds no animation stack, missing.fbx is
\* not on disk.
Paths == {"a.fbx", "b.fbx", "static.fbx", "missing.fbx"}

\* os.path.exists(fbx_file)
os_path_exists(p) == p # "missing.fbx"

\* scene.GetSrcObject(FbxCriteria.ObjectType(FbxAnimStack.ClassId), 0):
\* the first animation stack of the scene, with the frame counts of its
\* local time span, or None (present = FALSE)
GetSrcObject(p) ==
    CASE p = "a.fbx" -> [present |-> TRUE, start |-> 0, stop |-> 1]
      [] p = "b.fbx" -> [present |-> TRUE, start |-> 1, stop |-> 2]
      [] OTHER -> [present |-> FALSE, start |-> 0, stop |-> 0]

\* The node tree of every scene: RootNode -> spine -> neck.
RootNode == "RootNode"
BoneNames == <<"spine", "neck">>
NodeParent(n) == IF n = "spine" THEN RootNode ELSE "spine"

\* node.EvaluateGlobalTransform(time).GetT(): the world position of a node of
\* scene p at a frame, kept symbolic
WorldPos(p, n, frame) == <<p, n, frame>>

\* FbxHandler.display_color before any assignment
DefaultColor == "white"

\* ui_utils.get_random_color(): some colour other than the default one; which
\* colour it is is not kept
get_random_color == "random"

\* ------------------------------------------------------------------- state
VARIABLES
    play_active,    \* AnimationViewportWidget.play_active
    active_frame,   \* AnimationViewportWidget.active_frame
    start_frame,    \* AnimationViewportWidget.start_frame
    end_frame,      \* AnimationViewportWidget.end_frame
    fast_timers,    \* timers started by startTimer(1) and still running
    fbx_handlers,   \* FBXViewportWidget.fbx_handlers, a list of FbxHandler
    emitted,        \* the signals the last handler emitted, in order
    drawn,          \* the line segments the last handler sent to GL
    unloaded,       \* is_loaded of each handler the last call dropped from
                    \* the list, in list order
    unload_counts,  \* unload_scene() calls made so far on each of those
                    \* handlers, in the same order
    last            \* the last handler that ran, with its arguments

vars == <<play_active, active_frame, start_frame, end_frame, fast_timers,
          fbx_handlers, emitted, drawn, unloaded, unload_counts, last>>

playback == <<play_active, active_frame, start_frame, end_frame>>

\* ----------------------------------------------------------------- helpers
RECURSIVE SeqMin(_)
SeqMin(s) ==
    IF Len(s) = 1 THEN s[1]
    ELSE LET m == SeqMin(Tail(s)) IN IF s[1] <= m THEN s[1] ELSE m

RECURSIVE SeqMax(_)
SeqMax(s) ==
    IF Len(s) = 1 THEN s[1]
    ELSE LET m == SeqMax(Tail(s)) IN IF s[1] >= m THEN s[1] ELSE m

\* Python: x in list
In(x, s) == \E i \in 1..Len(s) : s[i] = x

\* number of occurrences of x in list s
Count(x, s) == Cardinality({i \in 1..Len(s) : s[i] = x})

\* Python: list.remove(x), which deletes the first occurrence only
ListRemove(s, x) ==
    LET k == CHOOSE i \in 1..Len(s) : s[i] = x /\ \A j \in 1..(i - 1) : s[j] # x
    IN  SubSeq(s, 1, k - 1) \o SubSeq(s, k + 1, Len(s))

\* the record of a call: which handler ran, with which arguments, and the
\* exception that left it (fault = "none" when it returned normally)
NoCall ==
    [op |-> "init", value |-> 0, paths |-> <<>>,
     fbx_path |-> "", node_names |-> <<>>, state |-> FALSE, fault |-> "none"]

\* a signal emission, with the playback fields a subscriber reads when the
\* signal is delivered
Signal(sig, value, keys, sf, ef, af) ==
    [sig |-> sig, value |-> value, keys |-> keys,
     start_frame |-> sf, end_frame |-> ef, active_frame |-> af]

\* ------------------------------------------------------- playback controller
Init ==
    /\ play_active = FALSE
    /\ active_frame = 0
    /\ start_frame = 0
    /\ end_frame = 0
    /\ fast_timers = 0
    /\ fbx_handlers = <<>>
    /\ emitted = <<>>
    /\ drawn = <<>>
    /\ unloaded = <<>>
    /\ unload_counts = <<>>
    /\ last = NoCall

\* set_active_frame emitting frame_changed before it assigns active_frame
SetActiveFrameEffect_EmitFirst(value) ==
    /\ active_frame' = value
    /\ emitted' = <<Signal("frame_changed", active_frame, <<>>,
                           start_frame, end_frame, active_frame)>>
    /\ drawn' = <<>>
    /\ unloaded' = <<>>
    /\ unload_counts' = <<>>
    /\ UNCHANGED <<play_active, start_frame, end_frame, fast_timers, fbx_handlers>>

\* set_active_frame(value): assign, request a repaint, emit frame_changed
SetActiveFrameEffect(value) ==
    /\ active_frame' = value
    /\ emitted' = <<Signal("frame_changed", value, <<>>,
                           start_frame, end_frame, value)>>
    /\ drawn' = <<>>
    /\ unloaded' = <<>>
    /\ unload_counts' = <<>>
    /\ UNCHANGED <<play_active, start_frame, end_frame, fast_timers, fbx_handlers>>

set_active_frame(value) ==
    /\ SetActiveFrameEffect(value)
    /\ last' = [NoCall EXCEPT !.op = "set_active_frame", !.value = value]

toggle_play ==
    /\ play_active \/ fast_timers < MaxTimers
    /\ play_active' = ~play_active
    /\ fast_timers' = IF play_active' THEN fast_timers + 1 ELSE fast_timers
    /\ emitted' = <<>>
    /\ drawn' = <<>>
    /\ unloaded' = <<>>
    /\ unload_counts' = <<>>
    /\ last' = [NoCall EXCEPT !.op = "toggle_play"]
    /\ UNCHANGED <<active_frame, start_frame, end_frame, fbx_handlers>>

\* timerEvent of a timer started by startTimer(1): requests a repaint
timerEvent ==
    /\ fast_timers > 0
    /\ emitted' = <<>>
    /\ drawn' = <<>>
    /\ unloaded' = <<>>
    /\ unload_counts' = <<>>
    /\ last' = [NoCall EXCEPT !.op = "timerEvent"]
    /\ UNCHANGED <<playback, fast_timers, fbx_handlers>>

\* set_frame without the play_active test of lines 119-120
set_frame_Unguarded(frame) ==
    /\ active_frame' = frame
    /\ emitted' = <<>>
    /\ drawn' = <<>>
    /\ unloaded' = <<>>
    /\ unload_counts' = <<>>
    /\ last' = [NoCall EXCEPT !.op = "set_frame", !.value = frame]
    /\ UNCHANGED <<play_active, start_frame, end_frame, fast_timers, fbx_handlers>>

\* set_frame clamping the frame to the timeline, as increment_frame does
set_frame_Clamped(frame) ==
    /\ active_frame' = IF play_active THEN active_frame
                       ELSE IF frame < start_frame THEN start_frame
                       ELSE IF frame > end_frame THEN end_frame ELSE frame
    /\ emitted' = <<>>
    /\ drawn' = <<>>
    /\ unloaded' = <<>>
    /\ unload_counts' = <<>>
    /\ last' = [NoCall EXCEPT !.op = "set_frame", !.value = frame]
    /\ UNCHANGED <<play_active, start_frame, end_frame, fast_timers, fbx_handlers>>

set_frame(frame) ==
    /\ active_frame' = IF play_active THEN active_frame ELSE frame
    /\ emitted' = <<>>
    /\ drawn' = <<>>
    /\ unloaded' = <<>>
    /\ unload_counts' = <<>>
    /\ last' = [NoCall EXCEPT !.op = "set_frame", !.value = frame]
    /\ UNCHANGED <<play_active, start_frame, end_frame, fast_timers, fbx_handlers>>

\* play_next_frame without the loop back to start_frame
NextFrame_NoWrap == active_frame + 1

\* the frame play_next_frame moves to while playing
NextFrame == IF active_frame >= end_frame THEN start_frame ELSE active_frame + 1

\* the 30 ms QTimer's timeout slot
play_next_frame ==
    /\ last' = [NoCall EXCEPT !.op = "play_next_frame"]
    /\ IF ~play_active
       THEN /\ emitted' = <<>>
            /\ drawn' = <<>>
            /\ unloaded' = <<>>
            /\ unload_counts' = <<>>
            /\ UNCHANGED <<playback, fast_timers, fbx_handlers>>
       ELSE SetActiveFrameEffect(NextFrame)

\* the clamp without its upper limit: max(start_frame, target_frame)
Clamp_NoUpper(target_frame) ==
    IF start_frame >= target_frame THEN start_frame ELSE target_frame

\* the clamp without its lower limit: min(target_frame, end_frame)
Clamp_NoLower(target_frame) ==
    IF target_frame <= end_frame THEN target_frame ELSE end_frame

\* max(start_frame, min(target_frame, end_frame))
Clamp(target_frame) ==
    LET lo == IF target_frame <= end_frame THEN target_frame ELSE end_frame
    IN  IF start_frame >= lo THEN start_frame ELSE lo

increment_frame(value) ==
    /\ SetActiveFrameEffect(Clamp(active_frame + value))
    /\ last' = [NoCall EXCEPT !.op = "increment_frame", !.value = value]

go_to_start_frame ==
    /\ SetActiveFrameEffect(start_frame)
    /\ last' = [NoCall EXCEPT !.op = "go_to_start_frame"]

go_to_end_frame ==
    /\ SetActiveFrameEffect(end_frame)
    /\ last' = [NoCall EXCEPT !.op = "go_to_end_frame"]

\* ------------------------------------------------------------ scene handler
\* self.anim_stack = None
NoAnimStack == [present |-> FALSE, start |-> 0, stop |-> 0]

\* the fields of a handler the viewport reads and writes: the path it was
\* loaded from, its display colour and its list of hidden node names
ViewportFields ==
    [file_path |-> "", display_color |-> DefaultColor, hidden_nodes |-> <<>>]

\* FbxHandler(): a handler with no scene loaded; unload_calls counts the
\* unload_scene() calls (manager.Destroy()) made on the object
FbxHandler ==
    [anim_stack |-> NoAnimStack, is_loaded |-> FALSE, unload_calls |-> 0]
        @@ ViewportFields

\* load_scene(file_path): the handler after the call, and whether the call
\* raised.  With no animation stack in the scene anim_stack is None and
\* self.anim_stack.GetSrcObject raises AttributeError before is_loaded is set.
load_scene(handler, file_path) ==
    LET stack == GetSrcObject(file_path)
        found == [handler EXCEPT !.file_path = file_path, !.anim_stack = stack]
    IN  IF ~stack.present
        THEN [handler |-> found, raised |-> TRUE]
        ELSE [handler |-> [found EXCEPT !.is_loaded = TRUE], raised |-> FALSE]

\* unload_scene(): manager.Destroy(), is_loaded = False
unload_scene(handler) ==
    [handler EXCEPT !.is_loaded = FALSE, !.unload_calls = @ + 1]

\* anim_stack.GetLocalTimeSpan().GetStart().GetFrameCount()
get_start_frame(handler) == handler.anim_stack.start

\* anim_stack.GetLocalTimeSpan().GetStop().GetFrameCount()
get_end_frame(handler) == handler.anim_stack.stop

\* --------------------------------------------------------------- aggregator
\* remove_existing_handlers without the clear() of line 267
remove_existing_handlers_KeepList(handlers) ==
    [unloaded |-> [i \in 1..Len(handlers) |-> unload_scene(handlers[i])],
     fbx_handlers |-> [i \in 1..Len(handlers) |-> unload_scene(handlers[i])]]

\* remove_existing_handlers(): unload every handler, then clear the list
remove_existing_handlers(handlers) ==
    [unloaded |-> [i \in 1..Len(handlers) |-> unload_scene(handlers[i])],
     fbx_handlers |-> <<>>]

\* the colour lines 249-250 leave on a handler loaded from a list of n paths
AssignColor(n) == IF n > 1 THEN get_random_color ELSE DefaultColor

\* scene_desc.transform_hierarchy[fbx_file] = ...: a dict keeps one entry per
\* key, in the order of first insertion
DictSet(keys, k) == IF In(k, keys) THEN keys ELSE Append(keys, k)

\* the loop appending the new handler to the list before load_scene is
\* called on it (lines 243 and 244 exchanged)
RECURSIVE LoadLoop_AppendFirst(_, _, _)
LoadLoop_AppendFirst(paths, i, acc) ==
    IF i > Len(paths) \/ acc.fault # "none" THEN acc
    ELSE IF ~os_path_exists(paths[i]) THEN LoadLoop_AppendFirst(paths, i + 1, acc)
    ELSE LET res == load_scene(FbxHandler, paths[i])
             h == [res.handler EXCEPT
                     !.display_color = AssignColor(Len(paths))]
         IN  IF res.raised
             THEN [acc EXCEPT !.fbx_handlers = Append(@, res.handler),
                              !.fault = "AttributeError"]
             ELSE LoadLoop_AppendFirst(paths, i + 1,
                    [acc EXCEPT !.fbx_handlers = Append(@, h),
                                !.start_times = Append(@, get_start_frame(h)),
                                !.end_times = Append(@, get_end_frame(h)),
                                !.keys = DictSet(@, paths[i])])

\* the for loop of load_fbx_files from path i on; acc holds the handlers
\* appended to the list, start_times, end_times, the keys of scene_desc and
\* the exception raised
RECURSIVE LoadLoop(_, _, _)
LoadLoop(paths, i, acc) ==
    IF i > Len(paths) \/ acc.fault # "none" THEN acc
    ELSE IF ~os_path_exists(paths[i]) THEN LoadLoop(paths, i + 1, acc)
    ELSE LET res == load_scene(FbxHandler, paths[i])
             h == [res.handler EXCEPT
                     !.display_color = AssignColor(Len(paths))]
         IN  IF res.raised THEN [acc EXCEPT !.fault = "AttributeError"]
             ELSE LoadLoop(paths, i + 1,
                    [acc EXCEPT !.fbx_handlers = Append(@, h),
                                !.start_times = Append(@, get_start_frame(h)),
                                !.end_times = Append(@, get_end_frame(h)),
                                !.keys = DictSet(@, paths[i])])

\* the path lists load_fbx_files is called with
RECURSIVE SeqsUpTo(_, _)
SeqsUpTo(S, n) ==
    IF n = 0 THEN {<<>>}
    ELSE LET shorter == SeqsUpTo(S, n - 1)
         IN  shorter \cup {Append(s, x) : s \in shorter, x \in S}
PathLists == SeqsUpTo(Paths, MaxPaths)

\* what the loop (lines 234-256) yields for each path list; it reads nothing
\* of the widget but the list it appends to
LoopTable ==
    [paths \in PathLists |->
        LoadLoop(paths, 1, [fbx_handlers |-> <<>>, start_times |-> <<>>,
                            end_times |-> <<>>, keys |-> <<>>, fault |-> "none"])]

\* the state load_fbx_files leaves for a non-empty argument: the old handlers
\* are removed first, min()/max() of an empty list raise ValueError, and an
\* exception leaves the assignments made before it
LoadResult(paths) ==
    LET cleared == remove_existing_handlers(fbx_handlers)
        acc == LoopTable[paths]
        fault == IF acc.fault # "none" THEN acc.fault
                 ELSE IF acc.start_times = <<>> THEN "ValueError" ELSE "none"
        sf == IF fault = "none" THEN SeqMin(acc.start_times) ELSE start_frame
        ef == IF fault = "none" THEN SeqMax(acc.end_times) ELSE end_frame
        af == IF fault = "none" THEN sf ELSE active_frame
    IN  [fbx_handlers |-> cleared.fbx_handlers \o acc.fbx_handlers, fault |-> fault,
         unloaded |-> [i \in 1..Len(cleared.unloaded) |->
                         cleared.unloaded[i].is_loaded],
         unload_counts |-> [i \in 1..Len(cleared.unloaded) |->
                              cleared.unloaded[i].unload_calls],
         start_frame |-> sf, end_frame |-> ef, active_frame |-> af,
         emitted |-> IF fault = "none"
                     THEN <<Signal("scene_content_updated", 0, acc.keys, sf, ef, af)>>
                     ELSE <<>>]

\* load_fbx_files(fbx_file_paths); a single path given as a string
\* (file_double_clicked) is the one-element list line 230 wraps it into
load_fbx_files(paths) ==
    /\ last' = [NoCall EXCEPT !.op = "load_fbx_files", !.paths = paths,
                              !.fault = IF paths = <<>> THEN "none"
                                        ELSE LoadResult(paths).fault]
    /\ drawn' = <<>>
    /\ UNCHANGED <<play_active, fast_timers>>
    /\ IF paths = <<>>
       THEN /\ emitted' = <<>>
            /\ unloaded' = <<>>
            /\ unload_counts' = <<>>
            /\ UNCHANGED <<active_frame, start_frame, end_frame, fbx_handlers>>
       ELSE LET r == LoadResult(paths)
            IN  /\ fbx_handlers' = r.fbx_handlers
                /\ unloaded' = r.unloaded
                /\ unload_counts' = r.unload_counts
                /\ start_frame' = r.start_frame
                /\ end_frame' = r.end_frame
                /\ active_frame' = r.active_frame
                /\ emitted' = r.emitted

\* lines 274-280 with the two branches of `if state` exchanged
RECURSIVE UpdateHidden_Swapped(_, _, _, _)
UpdateHidden_Swapped(hidden, node_names, state, k) ==
    IF k > Len(node_names) THEN hidden
    ELSE LET node == node_names[k]
             nxt == IF ~state
                    THEN IF In(node, hidden) THEN ListRemove(hidden, node) ELSE hidden
                    ELSE Append(hidden, node)
         IN  UpdateHidden_Swapped(nxt, node_names, state, k + 1)

\* lines 274-280 on one handler's hidden_nodes, for the names from k on
RECURSIVE UpdateHidden(_, _, _, _)
UpdateHidden(hidden, node_names, state, k) ==
    IF k > Len(node_names) THEN hidden
    ELSE LET node == node_names[k]
             nxt == IF state
                    THEN IF In(node, hidden) THEN ListRemove(hidden, node) ELSE hidden
                    ELSE Append(hidden, node)
         IN  UpdateHidden(nxt, node_names, state, k + 1)

\* set_node_visibility leaving the loop at the first handler of the path
VisibilityResult_FirstOnly(handlers, fbx_path, node_names, state) ==
    [i \in 1..Len(handlers) |->
        IF handlers[i].file_path # fbx_path
           \/ \E j \in 1..(i - 1) : handlers[j].file_path = fbx_path
        THEN handlers[i]
        ELSE [handlers[i] EXCEPT
                !.hidden_nodes = UpdateHidden(@, node_names, state, 1)]]

\* the handler list after set_node_visibility
VisibilityResult(handlers, fbx_path, node_names, state) ==
    [i \in 1..Len(handlers) |->
        IF handlers[i].file_path # fbx_path THEN handlers[i]
        ELSE [handlers[i] EXCEPT
                !.hidden_nodes = UpdateHidden(@, node_names, state, 1)]]

\* the number of hidden_nodes entries of handlers i..n
RECURSIVE HiddenTotal(_, _)
HiddenTotal(handlers, i) ==
    IF i > Len(handlers) THEN 0
    ELSE Len(handlers[i].hidden_nodes) + HiddenTotal(handlers, i + 1)

\* set_node_visibility(fbx_path, node_names, state); the skeleton tree emits
\* state = (check state is Checked)
set_node_visibility(fbx_path, node_names, state) ==
    /\ fbx_handlers' = VisibilityResult(fbx_handlers, fbx_path, node_names, state)
    /\ HiddenTotal(fbx_handlers', 1) <= MaxHidden
    /\ emitted' = <<>>
    /\ drawn' = <<>>
    /\ unloaded' = <<>>
    /\ unload_counts' = <<>>
    /\ last' = [NoCall EXCEPT !.op = "set_node_visibility", !.fbx_path = fbx_path,
                              !.node_names = node_names, !.state = state]
    /\ UNCHANGED <<playback, fast_timers>>

\* --------------------------------------------------------------- the sampler
\* fbx_gl_utils.recursive_get_fbx_skeleton_positions(root, time, color): the
\* dict bone name -> [position, parent position] of every node below the
\* root, in depth-first order
recursive_get_fbx_skeleton_positions(file_path, frame) ==
    [k \in 1..Len(BoneNames) |->
        [bone |-> BoneNames[k],
         node_pos |-> WorldPos(file_path, BoneNames[k], frame),
         parent_pos |-> WorldPos(file_path, NodeParent(BoneNames[k]), frame)]]

\* paintGL skipping a hidden bone together with the bones below it
HandlerSegments_SkipSubtree(handlers, i, frame) ==
    LET h == handlers[i]
        Visible(item) ==
            /\ ~In(item.bone, h.hidden_nodes)
            /\ ~In(NodeParent(item.bone), h.hidden_nodes)
        items == SelectSeq(recursive_get_fbx_skeleton_positions(h.file_path, frame),
                           Visible)
    IN  IF ~h.is_loaded THEN <<>>
        ELSE [k \in 1..Len(items) |->
                [handler |-> i, bone |-> items[k].bone, node_pos |-> items[k].node_pos,
                 parent_pos |-> items[k].parent_pos, color |-> h.display_color]]

\* the segments paintGL draws for handler i (lines 197-220)
HandlerSegments(handlers, i, frame) ==
    LET h == handlers[i]
        Visible(item) == ~In(item.bone, h.hidden_nodes)
        items == SelectSeq(recursive_get_fbx_skeleton_positions(h.file_path, frame),
                           Visible)
    IN  IF ~h.is_loaded THEN <<>>
        ELSE [k \in 1..Len(items) |->
                [handler |-> i, bone |-> items[k].bone, node_pos |-> items[k].node_pos,
                 parent_pos |-> items[k].parent_pos, color |-> h.display_color]]

\* everything paintGL sends between glBegin and glEnd, handlers i..n
RECURSIVE PaintFrom(_, _, _)
PaintFrom(handlers, i, frame) ==
    IF i > Len(handlers) THEN <<>>
    ELSE HandlerSegments(handlers, i, frame) \o PaintFrom(handlers, i + 1, frame)

paintGL ==
    /\ drawn' = PaintFrom(fbx_handlers, 1, active_frame)
    /\ unloaded' = <<>>
    /\ unload_counts' = <<>>
    /\ emitted' = <<>>
    /\ last' = [NoCall EXCEPT !.op = "paintGL"]
    /\ UNCHANGED <<playback, fast_timers, fbx_handlers>>

\* ------------------------------------------------------------ specification
\* frame arguments: one frame below the timeline, every frame of it, one above
FrameArgs == (start_frame - 1)..(end_frame + 1)

\* increment_frame arguments: the hotkeys' steps (lines 307-310) and zero
Deltas == {0 - 15, 0 - 1, 0, 1, 15}

\* the name lists the skeleton tree sends: a bone, or a bone with its subtree
NameLists == {<<"neck">>, <<"spine">>, <<"spine", "neck">>}

\* the operations of the playback controller
ControllerNext ==
    \/ toggle_play
    \/ timerEvent
    \/ play_next_frame
    \/ go_to_start_frame
    \/ go_to_end_frame
    \/ \E frame \in FrameArgs : set_frame(frame)
    \/ \E frame \in FrameArgs : set_active_frame(frame)
    \/ \E value \in Deltas : increment_frame(value)

LoadNext == \E paths \in PathLists : load_fbx_files(paths)

\* the operations on the loaded scenes' bones
SceneNext ==
    \/ \E fbx_path \in Paths : \E node_names \in NameLists : \E state \in BOOLEAN :
          set_node_visibility(fbx_path, node_names, state)
    \/ paintGL

Next == ControllerNext \/ LoadNext \/ SceneNext

\* the whole viewport
Spec == Init /\ [][Next]_vars

\* The controller's operations never read hidden_nodes or drawn, and
\* set_node_visibility and paintGL leave the playback fields alone, so the two
\* halves are explored separately, each with loading: PlaybackSpec is the
\* viewport with no visibility toggles and no repaint, SceneSpec the viewport
\* in which no controller operation runs.
PlaybackNext == ControllerNext \/ LoadNext
PlaybackSpec == Init /\ [][PlaybackNext]_vars

SceneSpecNext == LoadNext \/ SceneNext
SceneSpec == Init /\ [][SceneSpecNext]_vars

\* ------------------------------------------------------------------ claims
InRange(frame) == start_frame <= frame /\ frame <= end_frame

\* the handlers loaded from fbx_path
Matching(handlers, fbx_path) ==
    {i \in 1..Len(handlers) : handlers[i].file_path = fbx_path}

\* the segments among segs drawn for bone b of handler i
SegmentsOf(segs, i, b) ==
    {j \in 1..Len(segs) : segs[j].handler = i /\ segs[j].bone = b}

\* the names of a list, as a set
Names(node_names) == {node_names[k] : k \in 1..Len(node_names)}

\* the paths of a list that are on disk, in order
ExistingPaths(paths) == SelectSeq(paths, os_path_exists)

FramesOutOfRangeCall ==
    /\ last'.op \in {"set_frame", "set_active_frame"}
    /\ ~InRange(last'.value)

\* C1 as stated: in every reachable state start_frame <= active_frame <=
\* end_frame, whatever integers the operations are given.
C1_Original == InRange(active_frame)

\* C1 as amended: every operation keeps start_frame <= active_frame <=
\* end_frame, except set_frame and set_active_frame called with a frame
\* outside [start_frame, end_frame], which store the frame as given.
C1_RangeKept ==
    [][(InRange(active_frame) /\ ~FramesOutOfRangeCall)
         => (start_frame' <= active_frame' /\ active_frame' <= end_frame')]_vars

\* C1 witness: a scrub inside a timeline of more than one frame has moved
\* active_frame off start_frame.
C1_Witness ==
    /\ last.op = "set_frame"
    /\ active_frame = last.value
    /\ start_frame < active_frame
    /\ active_frame <= end_frame

\* C2 as stated: load_fbx_files with an empty list, or with a list in which
\* no path exists, leaves the handler list, the playback fields and the
\* timeline untouched and emits no scene_content_updated.
C2_Claim ==
    [][(last'.op = "load_fbx_files" /\ ExistingPaths(last'.paths) = <<>>)
         => /\ fbx_handlers' = fbx_handlers
            /\ <<start_frame', end_frame', active_frame'>>
                 = <<start_frame, end_frame, active_frame>>
            /\ \A k \in 1..Len(emitted') : emitted'[k].sig # "scene_content_updated"]_vars

\* C3 as stated: hiding the same names on the same path a second time in a
\* row leaves the state as the first hide left it.
C3_Claim ==
    [][(last.op = "set_node_visibility" /\ ~last.state /\ last' = last)
         => fbx_handlers' = fbx_handlers]_vars

C5_HiddenBonesOnly ==
    last.op = "paintGL" =>
        /\ \A i \in 1..Len(fbx_handlers) : \A k \in 1..Len(BoneNames) :
             Cardinality(SegmentsOf(drawn, i, BoneNames[k])) =
                IF fbx_handlers[i].is_loaded
                   /\ Count(BoneNames[k], fbx_handlers[i].hidden_nodes) = 0
                THEN 1 ELSE 0
        /\ \A j \in 1..Len(drawn) :
             LET h == fbx_handlers[drawn[j].handler]
             IN  /\ drawn[j].node_pos = WorldPos(h.file_path, drawn[j].bone, active_frame)
                 /\ drawn[j].parent_pos =
                      WorldPos(h.file_path, NodeParent(drawn[j].bone), active_frame)

\* C5 witness: a repaint with spine hidden and neck, its child, drawn.
C5_Witness ==
    /\ last.op = "paintGL"
    /\ \E i \in 1..Len(fbx_handlers) :
          /\ In("spine", fbx_handlers[i].hidden_nodes)
          /\ ~In("neck", fbx_handlers[i].hidden_nodes)
          /\ SegmentsOf(drawn, i, "neck") # {}
          /\ SegmentsOf(drawn, i, "spine") = {}

\* C6: increment_frame(delta) leaves active_frame in [start_frame, end_frame]
\* for every delta and every prior active_frame, and at active_frame + delta
\* when that frame is in the range.
C6_IncrementClamped ==
    [][last'.op = "increment_frame" =>
         /\ start_frame' <= active_frame' /\ active_frame' <= end_frame'
         /\ InRange(active_frame + last'.value)
              => active_frame' = active_frame + last'.value]_vars

\* C6 witness: a step of -15 on a timeline of more than one frame has ended
\* on start_frame.
C6_Witness ==
    /\ last.op = "increment_frame"
    /\ last.value = 0 - 15
    /\ start_frame < end_frame
    /\ active_frame = start_frame

\* C7 as stated: a tick while playing goes to start_frame when active_frame
\* = end_frame and otherwise adds one; a tick while paused changes nothing
\* and emits nothing.
C7_Original ==
    [][last'.op = "play_next_frame" =>
         IF play_active
         THEN active_frame' = (IF active_frame = end_frame THEN start_frame
                               ELSE active_frame + 1)
         ELSE playback' = playback /\ emitted' = <<>>]_vars

\* C7 as amended: a tick while playing goes to start_frame when active_frame
\* >= end_frame (at the end or past it) and otherwise adds one; a tick while
\* paused changes nothing and emits nothing.
C7_TickLoops ==
    [][last'.op = "play_next_frame" =>
         IF play_active
         THEN /\ active_frame' = (IF active_frame < end_frame THEN active_frame + 1
                                  ELSE start_frame)
              /\ <<play_active', start_frame', end_frame'>>
                   = <<play_active, start_frame, end_frame>>
         ELSE playback' = playback /\ emitted' = <<>>]_vars

\* C7 witness: a tick while playing has put active_frame on the last frame of
\* a timeline of more than one frame.
C7_Witness ==
    /\ last.op = "play_next_frame"
    /\ play_active
    /\ emitted # <<>>
    /\ start_frame < end_frame
    /\ active_frame = end_frame

\* C8 as stated: after load_fbx_files(paths) with at least one existing path
\* the handler list holds one loaded handler per existing path, in input
\* order, and none for a missing path.
C8_Claim ==
    (last.op = "load_fbx_files" /\ ExistingPaths(last.paths) # <<>>) =>
        /\ Len(fbx_handlers) = Len(ExistingPaths(last.paths))
        /\ \A i \in 1..Len(fbx_handlers) :
             /\ fbx_handlers[i].file_path = ExistingPaths(last.paths)[i]
             /\ fbx_handlers[i].is_loaded

\* C9 as stated: after a load_fbx_files call that loaded at least one scene,
\* start_frame is the least start frame and end_frame the greatest end frame
\* of the handlers held, active_frame = start_frame and start_frame <=
\* end_frame.
C9_Claim ==
    (last.op = "load_fbx_files" /\ last.paths # <<>> /\ fbx_handlers # <<>>) =>
        /\ \A i \in 1..Len(fbx_handlers) :
             /\ start_frame <= get_start_frame(fbx_handlers[i])
             /\ end_frame >= get_end_frame(fbx_handlers[i])
        /\ \E i \in 1..Len(fbx_handlers) : start_frame = get_start_frame(fbx_handlers[i])
        /\ \E i \in 1..Len(fbx_handlers) : end_frame = get_end_frame(fbx_handlers[i])
        /\ active_frame = start_frame
        /\ start_frame <= end_frame

\* C10 as stated: after a load_fbx_files call that leaves exactly one scene
\* loaded, its handler has the default display colour.  Stated for the calls
\* that return normally, where no other fault is involved.
C10_Claim ==
    (/\ last.op = "load_fbx_files" /\ last.paths # <<>> /\ last.fault = "none"
     /\ Len(fbx_handlers) = 1)
        => fbx_handlers[1].display_color = DefaultColor

\* the frame_changed emissions among the signals of the last handler
FrameChanged == SelectSeq(emitted, LAMBDA e : e.sig = "frame_changed")

\* the last handler went through set_active_frame
CalledSetActiveFrame ==
    \/ last.op \in {"set_active_frame", "increment_frame",
                    "go_to_start_frame", "go_to_end_frame"}
    \/ last.op = "play_next_frame" /\ play_active

\* C11 as stated: loading an existing scene file without animation stack
\* raises nothing, leaves a loaded handler, and that handler's
\* get_start_frame() and get_end_frame() are 0.
C11_Claim ==
    (/\ last.op = "load_fbx_files" /\ Len(last.paths) = 1
     /\ os_path_exists(last.paths[1]) /\ ~GetSrcObject(last.paths[1]).present)
        => /\ last.fault = "none"
           /\ Len(fbx_handlers) = 1
           /\ fbx_handlers[1].is_loaded
           /\ get_start_frame(fbx_handlers[1]) = 0
           /\ get_end_frame(fbx_handlers[1]) = 0

\* C12 as stated: every load_fbx_files call returns normally, whatever the
\* paths are.
C12_Claim == last.op = "load_fbx_files" => last.fault = "none"

\* C13: set_frame while playing changes neither active_frame, start_frame,
\* end_frame, the play state nor the handlers, whatever the frame, and emits
\* nothing.
C13_SetFrameIgnoredWhilePlaying ==
    [][(last'.op = "set_frame" /\ play_active) =>
         /\ playback' = playback
         /\ fbx_handlers' = fbx_handlers
         /\ emitted' = <<>>]_vars

\* C13 witness: set_frame was called while playing with a frame other than
\* the active one.
C13_Witness ==
    /\ last.op = "set_frame"
    /\ play_active
    /\ last.value # active_frame
    /\ InRange(last.value)

\* C14: set_frame while paused stores exactly the frame given, inside the
\* timeline or not, leaves the rest of the playback state and emits nothing.
C14_SetFrameStoresFrame ==
    [][(last'.op = "set_frame" /\ ~play_active) =>
         /\ active_frame' = last'.value
         /\ <<play_active', start_frame', end_frame'>>
              = <<play_active, start_frame, end_frame>>
         /\ emitted' = <<>>]_vars

\* C14 witness: a paused set_frame has put active_frame past end_frame.
C14_Witness ==
    /\ last.op = "set_frame"
    /\ ~play_active
    /\ active_frame = last.value
    /\ active_frame > end_frame

\* C15: a handler that goes through set_active_frame emits frame_changed
\* exactly once, carrying the active_frame it has just stored, and a
\* subscriber reading active_frame at delivery sees that value; toggle_play,
\* set_frame, timerEvent and a paused tick emit no frame_changed.
C15_FrameChangedOnce ==
    /\ CalledSetActiveFrame =>
         /\ Len(FrameChanged) = 1
         /\ FrameChanged[1].value = active_frame
         /\ FrameChanged[1].active_frame = active_frame
    /\ last.op = "set_active_frame" => active_frame = last.value
    /\ (\/ last.op \in {"toggle_play", "set_frame", "timerEvent"}
        \/ last.op = "play_next_frame" /\ ~play_active) => FrameChanged = <<>>

\* C15 witness: a tick while playing has moved active_frame off start_frame
\* and emitted the new frame.
C15_Witness ==
    /\ last.op = "play_next_frame"
    /\ play_active
    /\ active_frame > start_frame
    /\ Len(FrameChanged) = 1
    /\ FrameChanged[1].value = active_frame

\* C16: a load_fbx_files call that loads at least one scene unloads every
\* handler the list held and drops it, and the list then holds only the
\* handlers this call created: loaded, with nothing hidden, one per existing
\* path in input order.
C16_LoadReplacesSet ==
    [][(last'.op = "load_fbx_files" /\ last'.paths # <<>> /\ fbx_handlers' # <<>>) =>
         /\ Len(unloaded') = Len(fbx_handlers)
         /\ \A i \in 1..Len(unloaded') : unloaded'[i] = FALSE
         /\ Len(fbx_handlers') <= Len(ExistingPaths(last'.paths))
         /\ \A i \in 1..Len(fbx_handlers') :
              /\ fbx_handlers'[i].file_path = ExistingPaths(last'.paths)[i]
              /\ fbx_handlers'[i].is_loaded
              /\ fbx_handlers'[i].hidden_nodes = <<>>]_vars

\* C16 witness: a load has dropped two handlers and holds one new handler.
C16_Witness ==
    /\ last.op = "load_fbx_files"
    /\ Len(unloaded) = 2
    /\ Len(fbx_handlers) = 1
    /\ last.fault = "none"

\* C17 as stated: a load_fbx_files call that loads at least one scene emits
\* scene_content_updated exactly once, and a subscriber reading the playback
\* fields at delivery sees the new timeline with active_frame = start_frame.
C17_Claim ==
    (last.op = "load_fbx_files" /\ last.paths # <<>> /\ fbx_handlers # <<>>) =>
        /\ Len(emitted) = 1
        /\ emitted[1].sig = "scene_content_updated"
        /\ <<emitted[1].start_frame, emitted[1].end_frame, emitted[1].active_frame>>
             = <<start_frame, end_frame, active_frame>>
        /\ emitted[1].active_frame = emitted[1].start_frame

\* C18: set_node_visibility changes hidden_nodes of every handler loaded from
\* the path, all in the same way, and nothing else: no other handler, no
\* other field, no playback state.  With no handler of that path, or when
\* showing names none of which is hidden, the state is unchanged; no call
\* raises.
C18_OnlyMatchingHandlers ==
    [][last'.op = "set_node_visibility" =>
         LET hit == Matching(fbx_handlers, last'.fbx_path)
         IN  /\ playback' = playback
             /\ last'.fault = "none"
             /\ Len(fbx_handlers') = Len(fbx_handlers)
             /\ \A i \in 1..Len(fbx_handlers) :
                  /\ i \notin hit => fbx_handlers'[i] = fbx_handlers[i]
                  /\ [fbx_handlers'[i] EXCEPT !.hidden_nodes = <<>>]
                       = [fbx_handlers[i] EXCEPT !.hidden_nodes = <<>>]
             /\ \A i \in hit : \A j \in hit :
                  fbx_handlers[i].hidden_nodes = fbx_handlers[j].hidden_nodes
                    => fbx_handlers'[i].hidden_nodes = fbx_handlers'[j].hidden_nodes
             /\ \A i \in hit :
                  IF last'.state
                  THEN ((\A n \in Names(last'.node_names) :
                            ~In(n, fbx_handlers[i].hidden_nodes))
                          => fbx_handlers'[i] = fbx_handlers[i])
                       /\ ((\E n \in Names(last'.node_names) :
                            In(n, fbx_handlers[i].hidden_nodes))
                          => Len(fbx_handlers'[i].hidden_nodes)
                               < Len(fbx_handlers[i].hidden_nodes))
                  ELSE Len(fbx_handlers'[i].hidden_nodes)
                         = Len(fbx_handlers[i].hidden_nodes) + Len(last'.node_names)]_vars

\* C18 witness: the same path is loaded twice and a hide on it has reached
\* both handlers.
C18_Witness ==
    /\ last.op = "set_node_visibility"
    /\ ~last.state
    /\ Cardinality(Matching(fbx_handlers, last.fbx_path)) = 2
    /\ \A i \in Matching(fbx_handlers, last.fbx_path) :
          fbx_handlers[i].hidden_nodes = last.node_names

\* C19 as stated: after a set_node_visibility call that shows names on a
\* path, none of them is in hidden_nodes of that path's handlers and the next
\* repaint draws their segments, whatever calls came before.
C19_Claim ==
    (last.op = "set_node_visibility" /\ last.state) =>
        \A i \in Matching(fbx_handlers, last.fbx_path) :
            \A n \in Names(last.node_names) :
                /\ ~In(n, fbx_handlers[i].hidden_nodes)
                /\ SegmentsOf(PaintFrom(fbx_handlers, 1, active_frame), i, n) # {}

\* C20 as stated: at most one fast timer started by toggle_play is running,
\* and none while paused.
C20_Claim ==
    /\ fast_timers <= 1
    /\ ~play_active => fast_timers = 0

\* C21: every handler in the handler list is loaded and unload_scene() was
\* never called on it, also after a load that faulted part-way; a handler
\* the list drops has had unload_scene() called on it exactly once, so no
\* handler is unloaded twice.
C21_ListedHandlersLoaded ==
    /\ \A i \in 1..Len(fbx_handlers) :
         /\ fbx_handlers[i].is_loaded
         /\ fbx_handlers[i].unload_calls = 0
    /\ Len(unload_counts) = Len(unloaded)
    /\ \A i \in 1..Len(unload_counts) : unload_counts[i] = 1

\* C21 witness: a load has unloaded and dropped a handler, loaded one scene
\* and then faulted on the next path.
C21_Witness ==
    /\ last.op = "load_fbx_files"
    /\ last.fault = "AttributeError"
    /\ Len(unload_counts) >= 1
    /\ Len(fbx_handlers) = 1
    /\ fbx_handlers[1].is_loaded

====
